---- MODULE Spec2Model ----
(***************************************************************************)
(* GraphEvaluator (src/polynomial/graph_evaluator.rs): an Expression is    *)
(* compiled once into a deduplicated list of calculations                  *)
(* (GraphEvaluator::new), and the list is then executed once per row       *)
(* against external data (GraphEvaluator::evaluate).                       *)
(*                                                                         *)
(* Indices are the source's 0-based indices; a TLA+ sequence s holds the   *)
(* element of Rust index i at s[i + 1].                                    *)
(***************************************************************************)
EXTENDS Integers, Sequences, FiniteSets, TLC

(***************************************************************************)
(* Bounds of the model.                                                    *)
(***************************************************************************)
\* The scalar field F is modelled by the integers modulo P.
P == 5
\* Tables have 0 .. MaxRowSize rows; row indices range over 0 .. MaxRowSize - 1.
MaxRowSize == 3
\* Number of evaluate calls that may be in flight on one graph.
NumCalls == 2
\* The longest list of parts of a Horner instruction
MaxParts == 2

\* i32::MAX and i32::MIN, the range of Rotation.0 and of the sum in get_rotation_idx.
MaxI32 == 2147483647
MinI32 == (-MaxI32) - 1

(***************************************************************************)
(* Field arithmetic (ff::PrimeField).                                      *)
(***************************************************************************)
F == 0 .. (P - 1)
FromU64(n) == n % P
FAdd(a, b) == (a + b) % P
FSub(a, b) == ((a + P) - b) % P
FMul(a, b) == (a * b) % P
FNeg(a) == (P - a) % P
FSquare(a) == (a * a) % P
FDouble(a) == (a + a) % P

(***************************************************************************)
(* Expression (super::Expression): the tree handed to GraphEvaluator::new. *)
(***************************************************************************)
Constant(scalar) == [tag |-> "Constant", scalar |-> scalar]
Polynomial(index, rotation) ==
    [tag |-> "Polynomial", index |-> index, rotation |-> rotation]
Challenge(index) == [tag |-> "Challenge", index |-> index]
Negated(a) == [tag |-> "Negated", a |-> a]
Sum(a, b) == [tag |-> "Sum", a |-> a, b |-> b]
Product(a, b) == [tag |-> "Product", a |-> a, b |-> b]
Scaled(a, f) == [tag |-> "Scaled", a |-> a, f |-> f]

(***************************************************************************)
(* enum ValueSource, with its derived PartialEq and PartialOrd.            *)
(***************************************************************************)
VS_Constant(id) == [kind |-> "Constant", index |-> id, rotation |-> 0]
VS_Intermediate(id) == [kind |-> "Intermediate", index |-> id, rotation |-> 0]
VS_Fixed(index, rotation) ==
    [kind |-> "Fixed", index |-> index, rotation |-> rotation]
VS_Poly(index, rotation) ==
    [kind |-> "Poly", index |-> index, rotation |-> rotation]
VS_Challenge(index) == [kind |-> "Challenge", index |-> index, rotation |-> 0]

\* The position of a variant in the enum's declaration, which the derived
\* PartialOrd compares first.
VariantIndex(kind) ==
    CASE kind = "Constant" -> 0
      [] kind = "Intermediate" -> 1
      [] kind = "Fixed" -> 2
      [] kind = "Poly" -> 3
      [] kind = "Challenge" -> 4

\* a <= b of #[derive(PartialOrd)]: variants by declaration order, then the
\* fields in declaration order.
VS_le(x, y) ==
    IF VariantIndex(x.kind) # VariantIndex(y.kind)
    THEN VariantIndex(x.kind) < VariantIndex(y.kind)
    ELSE IF x.index # y.index
         THEN x.index < y.index
         ELSE x.rotation <= y.rotation

(***************************************************************************)
(* enum Calculation, with its derived PartialEq (record equality).         *)
(***************************************************************************)
Add(a, b) == [op |-> "Add", a |-> a, b |-> b]
Sub(a, b) == [op |-> "Sub", a |-> a, b |-> b]
Mul(a, b) == [op |-> "Mul", a |-> a, b |-> b]
Square(v) == [op |-> "Square", v |-> v]
Double(v) == [op |-> "Double", v |-> v]
Negate(v) == [op |-> "Negate", v |-> v]
Horner(start_value, parts, factor) ==
    [op |-> "Horner", start_value |-> start_value, parts |-> parts,
     factor |-> factor]
Store(v) == [op |-> "Store", v |-> v]

\* struct CalculationInfo
CalculationInfo(calculation, target) ==
    [calculation |-> calculation, target |-> target]

(***************************************************************************)
(* struct GraphEvaluator and the three insertion primitives.  Each         *)
(* primitive takes the evaluator g (the &mut self) and returns the         *)
(* evaluator after the call (.g) and the value returned (.r).              *)
(***************************************************************************)
\* impl Default for GraphEvaluator
Default ==
    [constants |-> <<0, FromU64(1), FromU64(2)>>,
     rotations |-> <<>>,
     num_intermediates |-> 0,
     calculations |-> <<>>]

\* Iterator::position: the 0-based index of the first element equal to x, or
\* -1 for None.
Position(s, x) ==
    IF \E i \in 1 .. Len(s) : s[i] = x
    THEN (CHOOSE i \in 1 .. Len(s) :
              s[i] = x /\ \A j \in 1 .. (i - 1) : s[j] # x) - 1
    ELSE -1

add_rotation(g, rotation) ==
    LET pos == Position(g.rotations, rotation)
    IN  IF pos >= 0
        THEN [g |-> g, r |-> pos]
        ELSE [g |-> [g EXCEPT !.rotations = Append(@, rotation)],
              r |-> (Len(g.rotations) + 1) - 1]

\* add_constant without the scan of the pool: the constant is always pushed
add_constant_Pushes(g, constant) ==
    [g |-> [g EXCEPT !.constants = Append(@, constant)],
     r |-> VS_Constant((Len(g.constants) + 1) - 1)]

add_constant(g, constant) ==
    LET pos == Position(g.constants, constant)
    IN  IF pos >= 0
        THEN [g |-> g, r |-> VS_Constant(pos)]
        ELSE [g |-> [g EXCEPT !.constants = Append(@, constant)],
              r |-> VS_Constant((Len(g.constants) + 1) - 1)]

\* add_calculation without self.num_intermediates += 1
add_calculation_SameSlot(g, calculation) ==
    LET pos == Position([i \in 1 .. Len(g.calculations) |->
                            g.calculations[i].calculation], calculation)
    IN  IF pos >= 0
        THEN [g |-> g, r |-> VS_Intermediate(g.calculations[pos + 1].target)]
        ELSE LET target == g.num_intermediates
             IN  [g |-> [g EXCEPT
                           !.calculations =
                               Append(@, CalculationInfo(calculation, target))],
                  r |-> VS_Intermediate(target)]

add_calculation(g, calculation) ==
    LET pos == Position([i \in 1 .. Len(g.calculations) |->
                            g.calculations[i].calculation], calculation)
    IN  IF pos >= 0
        THEN [g |-> g, r |-> VS_Intermediate(g.calculations[pos + 1].target)]
        ELSE LET target == g.num_intermediates
             IN  [g |-> [g EXCEPT
                           !.calculations =
                               Append(@, CalculationInfo(calculation, target)),
                           !.num_intermediates = @ + 1],
                  r |-> VS_Intermediate(target)]

(***************************************************************************)
(* GraphEvaluator::add_expression.  The arms that combine the results of   *)
(* already compiled operands are operators of their own, used both by the  *)
(* recursive add_expression and by the stepwise compilation below.         *)
(***************************************************************************)
\* Expression::Polynomial, after add_rotation returned rot_idx
PolynomialArm(g, index, rot_idx) ==
    add_calculation(g, Store(VS_Poly(index, rot_idx)))

\* Expression::Challenge
ChallengeArm(g, challenge_index) ==
    add_calculation(g, Store(VS_Challenge(challenge_index)))

\* Expression::Negated(a), a not a constant, after a compiled to result_a
NegatedArm(g, result_a) ==
    IF result_a = VS_Constant(0)
    THEN [g |-> g, r |-> result_a]
    ELSE add_calculation(g, Negate(result_a))

\* Expression::Sum(a, Negated(b_int)), after a and b_int compiled
SubArm(g, result_a, result_b) ==
    IF result_a = VS_Constant(0)
    THEN add_calculation(g, Negate(result_b))
    ELSE IF result_b = VS_Constant(0)
         THEN [g |-> g, r |-> result_a]
         ELSE add_calculation(g, Sub(result_a, result_b))

\* The Sum arm without the ordering of the two operands
SumArm_Unordered(g, expr_a_value_source, expr_b_value_source) ==
    add_calculation(g, Add(expr_a_value_source, expr_b_value_source))

\* Expression::Sum(a, b), b not a negation, after a and b compiled
SumArm(g, expr_a_value_source, expr_b_value_source) ==
    IF VS_le(expr_a_value_source, expr_b_value_source)
    THEN add_calculation(g, Add(expr_a_value_source, expr_b_value_source))
    ELSE add_calculation(g, Add(expr_b_value_source, expr_a_value_source))

\* The Product arm without the shortcut for a zero operand
ProductArm_NoZero(g, result_a, result_b) ==
    IF result_a = VS_Constant(1)
    THEN [g |-> g, r |-> result_b]
    ELSE IF result_b = VS_Constant(1)
    THEN [g |-> g, r |-> result_a]
    ELSE IF result_a = VS_Constant(2)
    THEN add_calculation(g, Double(result_b))
    ELSE IF result_b = VS_Constant(2)
    THEN add_calculation(g, Double(result_a))
    ELSE IF result_a = result_b
    THEN add_calculation(g, Square(result_a))
    ELSE IF VS_le(result_a, result_b)
    THEN add_calculation(g, Mul(result_a, result_b))
    ELSE add_calculation(g, Mul(result_b, result_a))

\* The Product arm without the rule for two identical references
ProductArm_NoSquare(g, result_a, result_b) ==
    IF result_a = VS_Constant(0) \/ result_b = VS_Constant(0)
    THEN [g |-> g, r |-> VS_Constant(0)]
    ELSE IF result_a = VS_Constant(1)
    THEN [g |-> g, r |-> result_b]
    ELSE IF result_b = VS_Constant(1)
    THEN [g |-> g, r |-> result_a]
    ELSE IF result_a = VS_Constant(2)
    THEN add_calculation(g, Double(result_b))
    ELSE IF result_b = VS_Constant(2)
    THEN add_calculation(g, Double(result_a))
    ELSE IF VS_le(result_a, result_b)
    THEN add_calculation(g, Mul(result_a, result_b))
    ELSE add_calculation(g, Mul(result_b, result_a))

\* Expression::Product(a, b), after a and b compiled
ProductArm(g, result_a, result_b) ==
    IF result_a = VS_Constant(0) \/ result_b = VS_Constant(0)
    THEN [g |-> g, r |-> VS_Constant(0)]
    ELSE IF result_a = VS_Constant(1)
    THEN [g |-> g, r |-> result_b]
    ELSE IF result_b = VS_Constant(1)
    THEN [g |-> g, r |-> result_a]
    ELSE IF result_a = VS_Constant(2)
    THEN add_calculation(g, Double(result_b))
    ELSE IF result_b = VS_Constant(2)
    THEN add_calculation(g, Double(result_a))
    ELSE IF result_a = result_b
    THEN add_calculation(g, Square(result_a))
    ELSE IF VS_le(result_a, result_b)
    THEN add_calculation(g, Mul(result_a, result_b))
    ELSE add_calculation(g, Mul(result_b, result_a))

\* Expression::Scaled(a, f), f neither zero nor one, after f was inserted as
\* cst and a compiled to result_a
ScaledArm(g, result_a, cst) ==
    add_calculation(g, Mul(result_a, cst))

RECURSIVE add_expression(_, _)
add_expression(g, expr) ==
    CASE expr.tag = "Constant" -> add_constant(g, expr.scalar)
      [] expr.tag = "Polynomial" ->
            LET rot == add_rotation(g, expr.rotation)
            IN  PolynomialArm(rot.g, expr.index, rot.r)
      [] expr.tag = "Challenge" -> ChallengeArm(g, expr.index)
      [] expr.tag = "Negated" ->
            IF expr.a.tag = "Constant"
            THEN add_constant(g, FNeg(expr.a.scalar))
            ELSE LET ra == add_expression(g, expr.a)
                 IN  NegatedArm(ra.g, ra.r)
      [] expr.tag = "Sum" ->
            IF expr.b.tag = "Negated"
            THEN LET ra == add_expression(g, expr.a)
                     rb == add_expression(ra.g, expr.b.a)
                 IN  SubArm(rb.g, ra.r, rb.r)
            ELSE LET ra == add_expression(g, expr.a)
                     rb == add_expression(ra.g, expr.b)
                 IN  SumArm(rb.g, ra.r, rb.r)
      [] expr.tag = "Product" ->
            LET ra == add_expression(g, expr.a)
                rb == add_expression(ra.g, expr.b)
            IN  ProductArm(rb.g, ra.r, rb.r)
      [] expr.tag = "Scaled" ->
            IF expr.f = 0
            THEN [g |-> g, r |-> VS_Constant(0)]
            ELSE IF expr.f = FromU64(1)
            THEN add_expression(g, expr.a)
            ELSE LET cst == add_constant(g, expr.f)
                     ra == add_expression(cst.g, expr.a)
                 IN  ScaledArm(ra.g, ra.r, cst.r)

\* GraphEvaluator::new
new(expr) ==
    LET value_source == add_expression(Default, expr)
    IN  add_calculation(value_source.g, Store(value_source.r)).g

(***************************************************************************)
(* External data (trait GetDataForEval), as the test module's Mock holds   *)
(* it: challenges, selector, fixed and advice columns, and the row count   *)
(* row_size() reports.                                                     *)
(***************************************************************************)
\* Mock::default()
DefaultMock ==
    [row_size |-> 0, challenges |-> <<>>, selectors |-> <<>>,
     fixed |-> <<>>, advice |-> <<>>]

\* A Mock reporting num_row rows, with one selector, one fixed and one advice
\* column of col_len cells each and num_challenges challenges.
MockData(num_row, col_len, num_challenges) ==
    [row_size |-> num_row,
     challenges |-> [i \in 1 .. num_challenges |-> FromU64(i + 2)],
     selectors |-> << [r \in 1 .. col_len |-> (r % 2 = 1)] >>,
     fixed |-> << [r \in 1 .. col_len |-> FromU64(r)] >>,
     advice |-> << [r \in 1 .. col_len |-> FromU64(r + 2)] >>]

\* Result<F, EvalError>, and a panic of the thread running the call.
Ok(val) == [tag |-> "Ok", val |-> val]
ColumnVariableIndexOutOfBoundary(column_index) ==
    [tag |-> "ColumnVariableIndexOutOfBoundary", column_index |-> column_index]
RowIndexOutOfBoundary(row_index) ==
    [tag |-> "RowIndexOutOfBoundary", row_index |-> row_index]
ChallengeIndexOutOfBoundary(challenge_index, challeges_len) ==
    [tag |-> "ChallengeIndexOutOfBoundary",
     challenge_index |-> challenge_index, challeges_len |-> challeges_len]
Panic(msg) == [tag |-> "Panic", msg |-> msg]

IsOk(res) == res.tag = "Ok"

\* Mock::eval_advice_var
eval_advice_var(getter, row_index, column_index) ==
    IF column_index >= Len(getter.advice)
    THEN ColumnVariableIndexOutOfBoundary(column_index)
    ELSE IF row_index >= Len(getter.advice[column_index + 1])
         THEN RowIndexOutOfBoundary(row_index)
         ELSE Ok(getter.advice[column_index + 1][row_index + 1])

\* GetDataForEval::eval_column_var: column indices address the selector
\* columns first, then the fixed columns, then the advice columns.
eval_column_var(getter, row_index, column_index) ==
    LET selector_offset == Len(getter.selectors)
        fixed_offset == selector_offset + Len(getter.fixed)
    IN  IF column_index < selector_offset
        THEN IF row_index >= Len(getter.selectors[column_index + 1])
             THEN RowIndexOutOfBoundary(row_index)
             ELSE Ok(IF getter.selectors[column_index + 1][row_index + 1]
                     THEN FromU64(1) ELSE 0)
        ELSE IF column_index < fixed_offset
        THEN IF row_index >=
                    Len(getter.fixed[(column_index - selector_offset) + 1])
             THEN RowIndexOutOfBoundary(row_index)
             ELSE Ok(getter.fixed[(column_index - selector_offset) + 1]
                                 [row_index + 1])
        ELSE eval_advice_var(getter, row_index, column_index - fixed_offset)

(***************************************************************************)
(* get_rotation_idx.  idx and num_row are cast to i32, the sum is an i32   *)
(* sum and the remainder is i32::rem_euclid.  An i32 sum out of range      *)
(* panics in a build with overflow checks and wraps modulo 2^32 in a build *)
(* without them; rem_euclid panics on a zero divisor in every build.  All  *)
(* idx and num_row of the model are below 2^31, where the casts keep the   *)
(* value.                                                                  *)
(***************************************************************************)
\* a + b of two i32 whose sum exceeds i32::MAX, wrapped: a + b - 2^32
WrappingAdd(a, b) == (a + MinI32) + (b + MinI32)

get_rotation_idx(idx, rot, num_row, overflow_checks) ==
    LET overflows == rot > 0 /\ idx > MaxI32 - rot
    IN  IF overflows /\ overflow_checks
        THEN Panic("attempt to add with overflow")
        ELSE IF num_row = 0
        THEN Panic("attempt to calculate the remainder with a divisor of zero")
        ELSE IF overflows
        THEN Ok(WrappingAdd(idx, rot) % num_row)
        ELSE Ok((idx + rot) % num_row)

(***************************************************************************)
(* Calculation::evaluate                                                   *)
(***************************************************************************)
\* s[i] of a slice: the element, or the panic of an index out of bounds
Index(s, i) ==
    IF i < Len(s) THEN Ok(s[i + 1]) ELSE Panic("index out of bounds")

\* get_value with the two fields of the challenge error exchanged
get_value_Exchanged(value, rotations, constants, intermediates, eval_getter) ==
    CASE value.kind = "Constant" -> Index(constants, value.index)
      [] value.kind = "Intermediate" -> Index(intermediates, value.index)
      [] value.kind = "Fixed" ->
            IF value.index >= Len(eval_getter.fixed)
            THEN ColumnVariableIndexOutOfBoundary(value.index)
            ELSE LET row == Index(rotations, value.rotation)
                 IN  IF ~IsOk(row)
                     THEN row
                     ELSE IF row.val >= Len(eval_getter.fixed[value.index + 1])
                          THEN RowIndexOutOfBoundary(row.val)
                          ELSE Ok(eval_getter.fixed[value.index + 1][row.val + 1])
      [] value.kind = "Poly" ->
            LET row == Index(rotations, value.rotation)
            IN  IF ~IsOk(row)
                THEN row
                ELSE eval_column_var(eval_getter, row.val, value.index)
      [] value.kind = "Challenge" ->
            IF value.index >= Len(eval_getter.challenges)
            THEN ChallengeIndexOutOfBoundary(Len(eval_getter.challenges),
                                             value.index)
            ELSE Ok(eval_getter.challenges[value.index + 1])

\* the closure get_value
get_value(value, rotations, constants, intermediates, eval_getter) ==
    CASE value.kind = "Constant" -> Index(constants, value.index)
      [] value.kind = "Intermediate" -> Index(intermediates, value.index)
      [] value.kind = "Fixed" ->
            IF value.index >= Len(eval_getter.fixed)
            THEN ColumnVariableIndexOutOfBoundary(value.index)
            ELSE LET row == Index(rotations, value.rotation)
                 IN  IF ~IsOk(row)
                     THEN row
                     ELSE IF row.val >= Len(eval_getter.fixed[value.index + 1])
                          THEN RowIndexOutOfBoundary(row.val)
                          ELSE Ok(eval_getter.fixed[value.index + 1][row.val + 1])
      [] value.kind = "Poly" ->
            LET row == Index(rotations, value.rotation)
            IN  IF ~IsOk(row)
                THEN row
                ELSE eval_column_var(eval_getter, row.val, value.index)
      [] value.kind = "Challenge" ->
            IF value.index >= Len(eval_getter.challenges)
            THEN ChallengeIndexOutOfBoundary(value.index,
                                             Len(eval_getter.challenges))
            ELSE Ok(eval_getter.challenges[value.index + 1])

\* Horner's loop with the part and the factor exchanged
RECURSIVE HornerLoop_Exchanged(_, _, _, _, _, _, _, _)
HornerLoop_Exchanged(parts, i, value, factor, rotations, constants, intermediates, eval_getter) ==
    IF i > Len(parts)
    THEN Ok(value)
    ELSE LET part == get_value(parts[i], rotations, constants, intermediates,
                               eval_getter)
         IN  IF ~IsOk(part)
             THEN part
             ELSE HornerLoop_Exchanged(parts, i + 1,
                                       FAdd(FMul(value, part.val), factor),
                                       factor, rotations, constants,
                                       intermediates, eval_getter)

\* Horner's loop over parts, from part number i (1-based) with accumulator value
RECURSIVE HornerLoop(_, _, _, _, _, _, _, _)
HornerLoop(parts, i, value, factor, rotations, constants, intermediates, eval_getter) ==
    IF i > Len(parts)
    THEN Ok(value)
    ELSE LET part == get_value(parts[i], rotations, constants, intermediates,
                               eval_getter)
         IN  IF ~IsOk(part)
             THEN part
             ELSE HornerLoop(parts, i + 1, FAdd(FMul(value, factor), part.val),
                             factor, rotations, constants, intermediates,
                             eval_getter)

Calculation_evaluate(calc, rotations, constants, intermediates, eval_getter) ==
    LET gv(value) == get_value(value, rotations, constants, intermediates,
                               eval_getter)
        \* get_value(a)? op get_value(b)?
        Binary(op(_, _)) ==
            IF ~IsOk(gv(calc.a)) THEN gv(calc.a)
            ELSE IF ~IsOk(gv(calc.b)) THEN gv(calc.b)
            ELSE Ok(op(gv(calc.a).val, gv(calc.b).val))
        Unary(op(_)) ==
            IF ~IsOk(gv(calc.v)) THEN gv(calc.v) ELSE Ok(op(gv(calc.v).val))
        Id(x) == x
    IN  CASE calc.op = "Add" -> Binary(FAdd)
          [] calc.op = "Sub" -> Binary(FSub)
          [] calc.op = "Mul" -> Binary(FMul)
          [] calc.op = "Square" -> Unary(FSquare)
          [] calc.op = "Double" -> Unary(FDouble)
          [] calc.op = "Negate" -> Unary(FNeg)
          [] calc.op = "Horner" ->
                IF ~IsOk(gv(calc.factor)) THEN gv(calc.factor)
                ELSE IF ~IsOk(gv(calc.start_value)) THEN gv(calc.start_value)
                ELSE HornerLoop(calc.parts, 1, gv(calc.start_value).val,
                                gv(calc.factor).val, rotations, constants,
                                intermediates, eval_getter)
          [] calc.op = "Store" -> Unary(Id)

(***************************************************************************)
(* GraphEvaluator::instance and GraphEvaluator::evaluate.  The two loops   *)
(* of evaluate are given by their bodies (one iteration each), which the   *)
(* function evaluate iterates and the actions below take one at a time.    *)
(***************************************************************************)
\* struct EvaluationData, as instance() allocates it
instance(g) ==
    [intermediates |-> [i \in 1 .. g.num_intermediates |-> 0],
     rotations |-> [i \in 1 .. Len(g.rotations) |-> 0]]

\* data.rotations[rot_idx] = get_rotation_idx(row_index, *rot, getter.row_size()):
\* the scratch data after the assignment (.data), or the panic (.res)
RotationIteration(g, data, rot_idx, getter, row_index, overflow_checks) ==
    LET row == get_rotation_idx(row_index, g.rotations[rot_idx + 1],
                                getter.row_size, overflow_checks)
    IN  IF ~IsOk(row)
        THEN [res |-> row, data |-> data]
        ELSE IF rot_idx >= Len(data.rotations)
        THEN [res |-> Panic("index out of bounds"), data |-> data]
        ELSE [res |-> row,
              data |-> [data EXCEPT !.rotations[rot_idx + 1] = row.val]]

\* data.intermediates[calc.target] = calc.calculation.evaluate(..)?
\* for the calculation of index k
CalculationIteration(g, data, k, getter) ==
    LET calc == g.calculations[k + 1]
        res == Calculation_evaluate(calc.calculation, data.rotations,
                                    g.constants, data.intermediates, getter)
    IN  IF ~IsOk(res)
        THEN [res |-> res, data |-> data]
        ELSE IF calc.target >= Len(data.intermediates)
        THEN [res |-> Panic("index out of bounds"), data |-> data]
        ELSE [res |-> res,
              data |-> [data EXCEPT !.intermediates[calc.target + 1] = res.val]]

\* the value evaluate returns once both loops ran to their end
ReturnValue(g, data) ==
    IF Len(g.calculations) > 0
    THEN Index(data.intermediates, g.calculations[Len(g.calculations)].target)
    ELSE Ok(0)

RECURSIVE RotationLoop(_, _, _, _, _, _)
RotationLoop(g, data, rot_idx, getter, row_index, overflow_checks) ==
    IF rot_idx >= Len(g.rotations)
    THEN [res |-> Ok(0), data |-> data]
    ELSE LET it == RotationIteration(g, data, rot_idx, getter, row_index,
                                     overflow_checks)
         IN  IF ~IsOk(it.res)
             THEN it
             ELSE RotationLoop(g, it.data, rot_idx + 1, getter, row_index,
                               overflow_checks)

RECURSIVE CalculationLoop(_, _, _, _)
CalculationLoop(g, data, k, getter) ==
    IF k >= Len(g.calculations)
    THEN [res |-> Ok(0), data |-> data]
    ELSE LET it == CalculationIteration(g, data, k, getter)
         IN  IF ~IsOk(it.res)
             THEN it
             ELSE CalculationLoop(g, it.data, k + 1, getter)

evaluate(g, getter, row_index, overflow_checks) ==
    LET rots == RotationLoop(g, instance(g), 0, getter, row_index,
                             overflow_checks)
    IN  IF ~IsOk(rots.res)
        THEN rots.res
        ELSE LET calcs == CalculationLoop(g, rots.data, 0, getter)
             IN  IF ~IsOk(calcs.res)
                 THEN calcs.res
                 ELSE ReturnValue(g, calcs.data)

(***************************************************************************)
(* Inputs of the model.                                                    *)
(***************************************************************************)
\* Rotation offsets of the column queries: the offsets of the test module,
\* and i32::MAX.
Rotations == {-1, 0, 1, 2, MaxI32}

\* Column queries (column index, rotation).  A Mock of MockData holds the
\* columns 0 (selector), 1 (fixed) and 2 (advice); column 3 is absent.
Queries == ((0 .. 3) \X {0}) \cup ({2} \X Rotations)

\* Challenge 0 is present in a Mock with challenges, challenge 1 never is.
Leaves ==
    {Constant(c) : c \in F}
        \cup {Polynomial(q[1], q[2]) : q \in Queries}
        \cup {Challenge(i) : i \in 0 .. 1}

\* The expressions with operands in S
Over(S, T) ==
    {Negated(a) : a \in S}
        \cup {Sum(a, b) : a \in S, b \in T}
        \cup {Sum(a, b) : a \in T, b \in S}
        \cup {Product(a, b) : a \in S, b \in T}
        \cup {Product(a, b) : a \in T, b \in S}

Scalings(S) == {Scaled(a, f) : a \in S, f \in F}

\* A few leaves for the nested expressions
Core == {Constant(0), Constant(3 % P), Polynomial(2, 0), Challenge(0)}
Shallow == Core \cup Over(Core, Core) \cup Scalings(Core)

\* Pairs of expressions that share or mirror sub-expressions
Twins ==
    {Sum(Polynomial(2, 0), Challenge(0)), Sum(Challenge(0), Polynomial(2, 0)),
     Product(Polynomial(2, 0), Challenge(0)),
     Product(Challenge(0), Polynomial(2, 0)),
     Negated(Polynomial(2, 0)), Scaled(Challenge(0), 3 % P)}

\* Multiplications of the same two constants, written as a product and as a
\* scaling
ConstTwins ==
    {Scaled(Constant(4 % P), 3 % P), Scaled(Constant(3 % P), 4 % P),
     Product(Constant(3 % P), Constant(4 % P)),
     Product(Constant(4 % P), Constant(3 % P))}

Exprs ==
    Leaves \cup Over(Leaves, Leaves) \cup Scalings(Leaves)
        \cup Over(Shallow, Core \cup {Negated(a) : a \in Core})
        \cup Over(Twins, Twins)
        \cup Over(ConstTwins, ConstTwins)

\* The expressions of the runs with several calls in flight
ExprsConc ==
    {Sum(Challenge(0), Polynomial(2, 1)),
     Product(Polynomial(3, 0), Challenge(1)),
     Sum(Polynomial(2, MaxI32), Negated(Constant(3 % P))),
     Negated(Scaled(Polynomial(2, -1), 3 % P)),
     Negated(Constant(1)),
     Scaled(Challenge(0), 0),
     Scaled(Challenge(0), 1)}

\* The external data: Mock::default(), consistent tables of every size, and
\* a table whose columns are one cell shorter than the row count it reports.
Datas ==
    {DefaultMock}
        \cup {MockData(n, n, 1) : n \in 1 .. MaxRowSize}
        \cup {MockData(MaxRowSize, MaxRowSize - 1, 1)}

Rows == 0 .. (MaxRowSize - 1)

(***************************************************************************)
(* State.                                                                  *)
(***************************************************************************)
VARIABLES
    expr,             \* the expression handed to GraphEvaluator::new
    overflow_checks,  \* whether the build panics on integer overflow
    self_,            \* the GraphEvaluator under construction, then built
    work,             \* add_expression's pending work, innermost first
    vals,             \* the ValueSources returned so far, last first
    phase,            \* "compiling" inside new, "ready" once it returned
    calls             \* the evaluate calls on the graph, by call: the
                      \* locals of evaluate, and two history fields,
                      \* executed (the indices of the calculations run, in
                      \* the order they ran) and after_failure (the call
                      \* began after another call had failed)

vars == <<expr, overflow_checks, self_, work, vals, phase, calls>>

\* An expression still to be compiled, and the continuation of an arm that
\* waits for its operands.
ExprFrame(e) == [t |-> "expr", e |-> e]
ArmFrame(t) == [t |-> t]
PolynomialFrame(index, rot_idx) ==
    [t |-> "PolynomialArm", index |-> index, rot_idx |-> rot_idx]
ScaledFrame(cst) == [t |-> "ScaledArm", cst |-> cst]

NoResult == [tag |-> "None"]

IdleCall ==
    [pc |-> "idle", getter |-> DefaultMock, row_index |-> 0,
     data |-> instance(Default), rot_idx |-> 0, k |-> 0,
     result |-> NoResult, executed |-> <<>>, after_failure |-> FALSE]

InitWith(E, ncalls) ==
    /\ expr \in E
    /\ overflow_checks \in BOOLEAN
    /\ self_ = Default
    /\ work = <<ExprFrame(expr)>>
    /\ vals = <<>>
    /\ phase = "compiling"
    /\ calls = [c \in 1 .. ncalls |-> IdleCall]

Init == InitWith(Exprs, 1)

InitConc == InitWith(ExprsConc, NumCalls)

(***************************************************************************)
(* GraphEvaluator::new, one insertion at a time.                           *)
(***************************************************************************)
Compiling(t) == phase = "compiling" /\ work # <<>> /\ Head(work).t = t

CompilingExpr(tag) == Compiling("expr") /\ Head(work).e.tag = tag

\* the step returns value_source having changed self_ to g
Returns(g, value_source, rest, popped) ==
    /\ self_' = g
    /\ work' = rest
    /\ vals' = <<value_source>> \o SubSeq(vals, popped + 1, Len(vals))
    /\ UNCHANGED <<expr, overflow_checks, phase, calls>>

\* the step descends into the frames fs
Descends(g, fs) ==
    /\ self_' = g
    /\ work' = fs \o Tail(work)
    /\ UNCHANGED <<expr, overflow_checks, vals, phase, calls>>

CompileConstant ==
    /\ CompilingExpr("Constant")
    /\ LET r == add_constant(self_, Head(work).e.scalar)
       IN  Returns(r.g, r.r, Tail(work), 0)

CompileRotation ==
    /\ CompilingExpr("Polynomial")
    /\ LET r == add_rotation(self_, Head(work).e.rotation)
       IN  Descends(r.g, <<PolynomialFrame(Head(work).e.index, r.r)>>)

CompilePolynomial ==
    /\ Compiling("PolynomialArm")
    /\ LET r == PolynomialArm(self_, Head(work).index, Head(work).rot_idx)
       IN  Returns(r.g, r.r, Tail(work), 0)

CompileChallenge ==
    /\ CompilingExpr("Challenge")
    /\ LET r == ChallengeArm(self_, Head(work).e.index)
       IN  Returns(r.g, r.r, Tail(work), 0)

CompileNegatedConstant ==
    /\ CompilingExpr("Negated")
    /\ Head(work).e.a.tag = "Constant"
    /\ LET r == add_constant(self_, FNeg(Head(work).e.a.scalar))
       IN  Returns(r.g, r.r, Tail(work), 0)

DescendNegated ==
    /\ CompilingExpr("Negated")
    /\ Head(work).e.a.tag # "Constant"
    /\ Descends(self_, <<ExprFrame(Head(work).e.a), ArmFrame("NegatedArm")>>)

DescendSub ==
    /\ CompilingExpr("Sum")
    /\ Head(work).e.b.tag = "Negated"
    /\ Descends(self_, <<ExprFrame(Head(work).e.a),
                         ExprFrame(Head(work).e.b.a), ArmFrame("SubArm")>>)

DescendSum ==
    /\ CompilingExpr("Sum")
    /\ Head(work).e.b.tag # "Negated"
    /\ Descends(self_, <<ExprFrame(Head(work).e.a),
                         ExprFrame(Head(work).e.b), ArmFrame("SumArm")>>)

DescendProduct ==
    /\ CompilingExpr("Product")
    /\ Descends(self_, <<ExprFrame(Head(work).e.a),
                         ExprFrame(Head(work).e.b), ArmFrame("ProductArm")>>)

ScaledByZero ==
    /\ CompilingExpr("Scaled")
    /\ Head(work).e.f = 0
    /\ Returns(self_, VS_Constant(0), Tail(work), 0)

ScaledByOne ==
    /\ CompilingExpr("Scaled")
    /\ Head(work).e.f # 0
    /\ Head(work).e.f = FromU64(1)
    /\ Descends(self_, <<ExprFrame(Head(work).e.a)>>)

DescendScaled ==
    /\ CompilingExpr("Scaled")
    /\ Head(work).e.f # 0
    /\ Head(work).e.f # FromU64(1)
    /\ LET cst == add_constant(self_, Head(work).e.f)
       IN  Descends(cst.g, <<ExprFrame(Head(work).e.a), ScaledFrame(cst.r)>>)

\* vals holds the result of the operand compiled last first: result_b, result_a
ApplyNegated ==
    /\ Compiling("NegatedArm")
    /\ LET r == NegatedArm(self_, vals[1])
       IN  Returns(r.g, r.r, Tail(work), 1)

ApplySub ==
    /\ Compiling("SubArm")
    /\ LET r == SubArm(self_, vals[2], vals[1])
       IN  Returns(r.g, r.r, Tail(work), 2)

ApplySum ==
    /\ Compiling("SumArm")
    /\ LET r == SumArm(self_, vals[2], vals[1])
       IN  Returns(r.g, r.r, Tail(work), 2)

ApplyProduct ==
    /\ Compiling("ProductArm")
    /\ LET r == ProductArm(self_, vals[2], vals[1])
       IN  Returns(r.g, r.r, Tail(work), 2)

ApplyScaled ==
    /\ Compiling("ScaledArm")
    /\ LET r == ScaledArm(self_, vals[1], Head(work).cst)
       IN  Returns(r.g, r.r, Tail(work), 1)

\* self_.add_calculation(Calculation::Store(value_source)); self_
FinishNew ==
    /\ phase = "compiling"
    /\ work = <<>>
    /\ self_' = add_calculation(self_, Store(vals[1])).g
    /\ phase' = "ready"
    /\ UNCHANGED <<expr, overflow_checks, work, vals, calls>>

(***************************************************************************)
(* GraphEvaluator::evaluate(&self, getter, row_index), one loop iteration  *)
(* at a time; every call owns the EvaluationData instance() gave it.  The  *)
(* calls are given the same external data and are numbered in the order    *)
(* they begin; the rows asked for are those of the table and the first one *)
(* past its end.                                                           *)
(***************************************************************************)
Begin(c, getter, row_index) ==
    /\ phase = "ready"
    /\ row_index <= getter.row_size
    /\ calls[c].pc = "idle"
    /\ \A d \in 1 .. (c - 1) : calls[d].pc # "idle"
    /\ \A d \in DOMAIN calls : calls[d].pc # "idle" => calls[d].getter = getter
    /\ calls' = [calls EXCEPT ![c] =
                    [pc |-> "running", getter |-> getter,
                     row_index |-> row_index, data |-> instance(self_),
                     rot_idx |-> 0, k |-> 0, result |-> NoResult,
                     executed |-> <<>>,
                     after_failure |->
                         \E d \in DOMAIN calls :
                             calls[d].pc = "done" /\ ~IsOk(calls[d].result)]]
    /\ UNCHANGED <<expr, overflow_checks, self_, work, vals, phase>>

\* the call c goes on with the record call
Continue(c, call) ==
    /\ calls' = [calls EXCEPT ![c] = call]
    /\ UNCHANGED <<expr, overflow_checks, self_, work, vals, phase>>

ResolveRotation(c) ==
    /\ calls[c].pc = "running"
    /\ calls[c].rot_idx < Len(self_.rotations)
    /\ LET it == RotationIteration(self_, calls[c].data, calls[c].rot_idx,
                                   calls[c].getter, calls[c].row_index,
                                   overflow_checks)
       IN  IF IsOk(it.res)
           THEN Continue(c, [calls[c] EXCEPT !.data = it.data,
                                             !.rot_idx = @ + 1])
           ELSE Continue(c, [calls[c] EXCEPT !.pc = "done",
                                             !.result = it.res])

\* The calculation loop without the return of `?`: a failed calculation is
\* skipped and the loop goes on
ExecuteCalculation_GoesOn(c) ==
    /\ calls[c].pc = "running"
    /\ calls[c].rot_idx >= Len(self_.rotations)
    /\ calls[c].k < Len(self_.calculations)
    /\ LET it == CalculationIteration(self_, calls[c].data, calls[c].k,
                                      calls[c].getter)
       IN  Continue(c, [calls[c] EXCEPT !.data = it.data,
                                        !.k = @ + 1,
                                        !.executed = Append(@, calls[c].k)])

\* The calculation loop writing one EvaluationData shared by the calls: the
\* slot is written in the buffer of every running call
ExecuteCalculation_Shared(c) ==
    /\ calls[c].pc = "running"
    /\ calls[c].rot_idx >= Len(self_.rotations)
    /\ calls[c].k < Len(self_.calculations)
    /\ LET it == CalculationIteration(self_, calls[c].data, calls[c].k,
                                      calls[c].getter)
           target == self_.calculations[calls[c].k + 1].target
       IN  /\ calls' =
                 [d \in DOMAIN calls |->
                     IF d = c
                     THEN IF IsOk(it.res)
                          THEN [calls[c] EXCEPT
                                   !.data = it.data,
                                   !.k = @ + 1,
                                   !.executed = Append(@, calls[c].k)]
                          ELSE [calls[c] EXCEPT
                                   !.pc = "done",
                                   !.result = it.res,
                                   !.executed = Append(@, calls[c].k)]
                     ELSE IF calls[d].pc = "running" /\ IsOk(it.res)
                          THEN [calls[d] EXCEPT
                                   !.data.intermediates[target + 1] =
                                       it.res.val]
                          ELSE calls[d]]
           /\ UNCHANGED <<expr, overflow_checks, self_, work, vals, phase>>

ExecuteCalculation(c) ==
    /\ calls[c].pc = "running"
    /\ calls[c].rot_idx >= Len(self_.rotations)
    /\ calls[c].k < Len(self_.calculations)
    /\ LET it == CalculationIteration(self_, calls[c].data, calls[c].k,
                                      calls[c].getter)
       IN  IF IsOk(it.res)
           THEN Continue(c, [calls[c] EXCEPT !.data = it.data,
                                             !.k = @ + 1,
                                             !.executed = Append(@, calls[c].k)])
           ELSE Continue(c, [calls[c] EXCEPT !.pc = "done",
                                             !.result = it.res,
                                             !.executed = Append(@, calls[c].k)])

Return(c) ==
    /\ calls[c].pc = "running"
    /\ calls[c].rot_idx >= Len(self_.rotations)
    /\ calls[c].k >= Len(self_.calculations)
    /\ Continue(c, [calls[c] EXCEPT !.pc = "done",
                                    !.result = ReturnValue(self_, calls[c].data)])

Next ==
    \/ CompileConstant
    \/ CompileRotation
    \/ CompilePolynomial
    \/ CompileChallenge
    \/ CompileNegatedConstant
    \/ DescendNegated
    \/ DescendSub
    \/ DescendSum
    \/ DescendProduct
    \/ ScaledByZero
    \/ ScaledByOne
    \/ DescendScaled
    \/ ApplyNegated
    \/ ApplySub
    \/ ApplySum
    \/ ApplyProduct
    \/ ApplyScaled
    \/ FinishNew
    \/ \E c \in DOMAIN calls, getter \in Datas, row_index \in Rows :
          Begin(c, getter, row_index)
    \/ \E c \in DOMAIN calls : ResolveRotation(c)
    \/ \E c \in DOMAIN calls : ExecuteCalculation(c)
    \/ \E c \in DOMAIN calls : Return(c)

\* One graph, one call at a time.
Spec == Init /\ [][Next]_vars

\* One graph, NumCalls calls in any interleaving.
SpecConc == InitConc /\ [][Next]_vars

(***************************************************************************)
(* Calculation::Horner.  No arm of add_expression emits the instruction,   *)
(* so the evaluator that holds one is put together field by field: a Store *)
(* of challenge 0 in slot 0 and the Horner instruction in slot 1, over a   *)
(* pool of four constants and the rotation 0.                              *)
(***************************************************************************)
StartRefs ==
    {VS_Constant(2), VS_Intermediate(0), VS_Challenge(1), VS_Poly(2, 0)}

FactorRefs ==
    {VS_Constant(3), VS_Intermediate(0), VS_Challenge(1), VS_Fixed(1, 0)}

PartRefs == {VS_Constant(2), VS_Challenge(1), VS_Fixed(0, 0)}

\* The lists of at most n parts
RECURSIVE PartLists(_)
PartLists(n) ==
    IF n = 0
    THEN {<<>>}
    ELSE PartLists(n - 1)
             \cup {Append(ps, p) : ps \in {qs \in PartLists(n - 1) :
                                              Len(qs) = n - 1},
                                   p \in PartRefs}

HornerGraph(start_value, parts, factor) ==
    [constants |-> <<0, FromU64(1), FromU64(2), FromU64(3)>>,
     rotations |-> <<0>>,
     num_intermediates |-> 2,
     calculations |->
         <<CalculationInfo(Store(VS_Challenge(0)), 0),
           CalculationInfo(Horner(start_value, parts, factor), 1)>>]

InitHorner ==
    /\ expr = Constant(0)
    /\ overflow_checks \in BOOLEAN
    /\ \E start_value \in StartRefs, parts \in PartLists(MaxParts),
          factor \in FactorRefs :
          self_ = HornerGraph(start_value, parts, factor)
    /\ work = <<>>
    /\ vals = <<>>
    /\ phase = "ready"
    /\ calls = [c \in 1 .. 1 |-> IdleCall]

NextHorner ==
    \/ \E c \in DOMAIN calls, getter \in Datas, row_index \in Rows :
          Begin(c, getter, row_index)
    \/ \E c \in DOMAIN calls : ResolveRotation(c)
    \/ \E c \in DOMAIN calls : ExecuteCalculation(c)
    \/ \E c \in DOMAIN calls : Return(c)

\* evaluate on an evaluator holding a Horner instruction
SpecHorner == InitHorner /\ [][NextHorner]_vars

\* The stepwise compilation ends in the graph new returns.
StepwiseIsNew == phase = "ready" => self_ = new(expr)

(***************************************************************************)
(* Properties.                                                             *)
(***************************************************************************)
Done(c) == calls[c].pc = "done"

\* What the call c returns when it is the only call ever made on the graph.
Alone(c) ==
    evaluate(self_, calls[c].getter, calls[c].row_index, overflow_checks)

\* (r + rot) mod n for n >= 1, the Euclidean remainder of the exact sum
EuclidRow(r, rot, n) == ((r % n) + (rot % n)) % n

\* The number of columns eval_column_var addresses
NumColumns(getter) ==
    Len(getter.selectors) + Len(getter.fixed) + Len(getter.advice)

\* Every column of the table holds row_size cells.
Consistent(getter) ==
    LET Full(cols) == \A i \in 1 .. Len(cols) : Len(cols[i]) = getter.row_size
    IN  Full(getter.selectors) /\ Full(getter.fixed) /\ Full(getter.advice)

RECURSIVE HasQuery(_)
HasQuery(e) ==
    CASE e.tag = "Polynomial" -> TRUE
      [] e.tag \in {"Constant", "Challenge"} -> FALSE
      [] e.tag \in {"Negated", "Scaled"} -> HasQuery(e.a)
      [] e.tag \in {"Sum", "Product"} -> HasQuery(e.a) \/ HasQuery(e.b)

\* Every column query and challenge index of e is in range of the data.
RECURSIVE InRange(_, _)
InRange(e, getter) ==
    CASE e.tag = "Constant" -> TRUE
      [] e.tag = "Polynomial" -> e.index < NumColumns(getter)
      [] e.tag = "Challenge" -> e.index < Len(getter.challenges)
      [] e.tag \in {"Negated", "Scaled"} -> InRange(e.a, getter)
      [] e.tag \in {"Sum", "Product"} ->
            InRange(e.a, getter) /\ InRange(e.b, getter)

\* The value of e at row r by field arithmetic over the tree
RECURSIVE ExprValue(_, _, _)
ExprValue(e, getter, r) ==
    CASE e.tag = "Constant" -> e.scalar
      [] e.tag = "Polynomial" ->
            eval_column_var(getter, EuclidRow(r, e.rotation, getter.row_size),
                            e.index).val
      [] e.tag = "Challenge" -> getter.challenges[e.index + 1]
      [] e.tag = "Negated" -> FNeg(ExprValue(e.a, getter, r))
      [] e.tag = "Sum" ->
            FAdd(ExprValue(e.a, getter, r), ExprValue(e.b, getter, r))
      [] e.tag = "Product" ->
            FMul(ExprValue(e.a, getter, r), ExprValue(e.b, getter, r))
      [] e.tag = "Scaled" -> FMul(ExprValue(e.a, getter, r), e.f)

\* C1: for every expression, row and external data whose tables are
\* consistent, in which every column query and challenge index of the
\* expression is in range and which has a row when the expression holds a
\* column query, evaluate returns Ok of the value of the expression computed
\* by field arithmetic over the tree, a column query (i, rot) being the cell
\* of column i at row (r + rot) mod row_size.
C1_EvaluateIsTreeValue ==
    \A c \in DOMAIN calls :
        (/\ Done(c)
         /\ Consistent(calls[c].getter)
         /\ InRange(expr, calls[c].getter)
         /\ (HasQuery(expr) => calls[c].getter.row_size >= 1))
        => calls[c].result =
               Ok(ExprValue(expr, calls[c].getter, calls[c].row_index))

\* C2: for every graph new builds, every row and every external data,
\* evaluate ends in a field value or in one of the three typed errors, and in
\* nothing else.
C2_ValueOrTypedError ==
    \A c \in DOMAIN calls :
        Done(c) =>
            calls[c].result.tag \in
                {"Ok", "ColumnVariableIndexOutOfBoundary",
                 "RowIndexOutOfBoundary", "ChallengeIndexOutOfBoundary"}

\* C5: for every row index r, rotation rot and table of n >= 1 rows, every
\* entry of the rotation table is resolved to the Euclidean remainder
\* (r + rot) mod n, which lies in 0 .. n - 1, and all entries are resolved
\* before any calculation executes.
C5_RotationIsEuclidRemainder ==
    \A c \in DOMAIN calls :
        (calls[c].pc # "idle" /\ calls[c].getter.row_size >= 1)
        => /\ calls[c].result.tag # "Panic"
           /\ \A i \in 1 .. calls[c].rot_idx :
                 /\ calls[c].data.rotations[i] =
                        EuclidRow(calls[c].row_index, self_.rotations[i],
                                  calls[c].getter.row_size)
                 /\ calls[c].data.rotations[i] \in
                        0 .. (calls[c].getter.row_size - 1)
           /\ (calls[c].executed # <<>> =>
                   calls[c].rot_idx = Len(self_.rotations))

(***************************************************************************)
(* C3                                                                      *)
(***************************************************************************)
\* The number of calculations of g equal to calc
Occurrences(g, calc) ==
    Cardinality({i \in 1 .. Len(g.calculations) :
                    g.calculations[i].calculation = calc})

\* The add node of Sum(a, b): the value references a and then b compile to,
\* in the order of ValueSource
PairAdd(a, b) ==
    LET ra == add_expression(Default, a)
        rb == add_expression(ra.g, b)
    IN  IF VS_le(ra.r, rb.r) THEN Add(ra.r, rb.r) ELSE Add(rb.r, ra.r)

\* The graph of the sum with the operands exchanged
Mirror == new(Sum(expr.b, expr.a))

MirrorResult(c) ==
    evaluate(Mirror, calls[c].getter, calls[c].row_index, overflow_checks)

\* e holds a Scaled, by a factor other than 0 and 1, of an operand that
\* compiles to a constant reference.
RECURSIVE ScalesConstant(_)
ScalesConstant(e) ==
    CASE e.tag \in {"Constant", "Polynomial", "Challenge"} -> FALSE
      [] e.tag = "Negated" -> ScalesConstant(e.a)
      [] e.tag \in {"Sum", "Product"} ->
            ScalesConstant(e.a) \/ ScalesConstant(e.b)
      [] e.tag = "Scaled" ->
            \/ ScalesConstant(e.a)
            \/ /\ e.f \notin {0, FromU64(1)}
               /\ add_expression(Default, e.a).r.kind = "Constant"

ProductByZero ==
    expr.tag = "Product" /\ (expr.a = Constant(0) \/ expr.b = Constant(0))

\* The operand a of Product(a, 0) or Product(0, a)
OtherOperand == IF expr.b = Constant(0) THEN expr.a ELSE expr.b

ResultIsZeroConstant ==
    phase = "ready"
    => /\ vals = <<VS_Constant(0)>>
       /\ self_.calculations[Len(self_.calculations)].calculation =
              Store(VS_Constant(0))
       /\ self_.constants[1] = 0

\* C4 as claimed: for every expression a, Product(a, Constant 0) and
\* Product(Constant 0, a) compile to a graph whose result reference is the
\* zero constant, and evaluating it returns the additive identity at every
\* row for every external data.
C4_ProductByZero ==
    ProductByZero
    => /\ ResultIsZeroConstant
       /\ \A c \in DOMAIN calls : Done(c) => calls[c].result = Ok(0)

\* C4 as amended: the result reference is the zero constant, but the
\* calculations compiled for a stay in the list and are executed: the
\* evaluation returns the additive identity exactly when evaluating the
\* graph of a alone at that row and data succeeds, and fails as the graph of
\* a fails otherwise.
C4_ProductByZeroAmended ==
    ProductByZero
    => /\ ResultIsZeroConstant
       /\ \A c \in DOMAIN calls :
             Done(c) =>
                 LET alone == evaluate(new(OtherOperand), calls[c].getter,
                                       calls[c].row_index, overflow_checks)
                 IN  IF IsOk(alone)
                     THEN calls[c].result = Ok(0)
                     ELSE calls[c].result = alone

\* A product of zero and an operand of nonzero value was evaluated.
C4_Witness ==
    /\ ProductByZero
    /\ \E c \in DOMAIN calls :
          /\ Done(c)
          /\ calls[c].result = Ok(0)
          /\ LET alone == evaluate(new(OtherOperand), calls[c].getter,
                                   calls[c].row_index, overflow_checks)
             IN  IsOk(alone) /\ alone.val # 0

(***************************************************************************)
(* C6                                                                      *)
(***************************************************************************)
\* The value references a calculation reads
Operands(calc) ==
    CASE calc.op \in {"Add", "Sub", "Mul"} -> {calc.a, calc.b}
      [] calc.op = "Horner" ->
            {calc.start_value, calc.factor}
                \cup {calc.parts[i] : i \in 1 .. Len(calc.parts)}
      [] OTHER -> {calc.v}

\* The challenge references of the calculation of index k
ChallengeRefs(k) ==
    {v \in Operands(self_.calculations[k + 1].calculation) :
        v.kind = "Challenge"}

Executed(c, k) == \E i \in 1 .. Len(calls[c].executed) : calls[c].executed[i] = k

\* The call c holds challenges[i] in the slot of the calculation of index k
\* once it executed it, and reports no challenge error for i.
Resolves(c, k, i) ==
    /\ Executed(c, k) =>
           calls[c].data.intermediates[self_.calculations[k + 1].target + 1] =
               calls[c].getter.challenges[i + 1]
    /\ ~(/\ calls[c].result.tag = "ChallengeIndexOutOfBoundary"
         /\ calls[c].result.challenge_index = i)

\* C6 as claimed: evaluating a graph that holds a challenge reference of
\* index i against data holding n challenges returns, when i >= n, the
\* challenge-index-out-of-boundary error carrying i and n; when i < n the
\* reference resolves to challenges[i] and no error is raised for it.
C6_ChallengeBounds ==
    \A c \in DOMAIN calls :
        Done(c) =>
            \A k \in 0 .. (Len(self_.calculations) - 1) :
                \A v \in ChallengeRefs(k) :
                    IF v.index >= Len(calls[c].getter.challenges)
                    THEN calls[c].result =
                             ChallengeIndexOutOfBoundary(
                                 v.index, Len(calls[c].getter.challenges))
                    ELSE Resolves(c, k, v.index)

\* C6 as amended: with i >= n the evaluation returns no value; it returns
\* the challenge-index-out-of-boundary error carrying exactly i and n when
\* the calculation holding the reference is executed, and the failure of an
\* earlier step (a rotation or an earlier calculation) when that calculation
\* is never reached.  With i < n the reference resolves to challenges[i] and
\* no error is raised for it.
C6_ChallengeBoundsAmended ==
    \A c \in DOMAIN calls :
        calls[c].pc # "idle" =>
            \A k \in 0 .. (Len(self_.calculations) - 1) :
                \A v \in ChallengeRefs(k) :
                    IF v.index >= Len(calls[c].getter.challenges)
                    THEN /\ Done(c) => ~IsOk(calls[c].result)
                         /\ Executed(c, k) =>
                                /\ Done(c)
                                /\ calls[c].result =
                                       ChallengeIndexOutOfBoundary(
                                           v.index,
                                           Len(calls[c].getter.challenges))
                    ELSE Resolves(c, k, v.index)

\* A call resolved one challenge and was refused the next one, of an index
\* beyond the challenges supplied.
C6_Witness ==
    \E c \in DOMAIN calls :
        /\ Done(c)
        /\ Len(calls[c].executed) >= 2
        /\ Len(calls[c].getter.challenges) >= 1
        /\ \E v \in ChallengeRefs(0) : Resolves(c, 0, v.index)
        /\ \E i \in 1 .. 3 :
              /\ i >= Len(calls[c].getter.challenges)
              /\ calls[c].result =
                     ChallengeIndexOutOfBoundary(
                         i, Len(calls[c].getter.challenges))

(***************************************************************************)
(* C9                                                                      *)
(***************************************************************************)
\* The last entry of the calculation list is the Store of the value
\* reference compiling expr returned, appended as a new calculation.
FinalStore ==
    LET n == Len(self_.calculations)
        compiled == add_expression(Default, expr)
    IN  /\ n >= 1
        /\ vals = <<compiled.r>>
        /\ n = Len(compiled.g.calculations) + 1
        /\ self_.calculations[n] = CalculationInfo(Store(compiled.r), n - 1)
        /\ \A i \in 1 .. (n - 1) :
              self_.calculations[i].calculation # Store(compiled.r)

\* C9: for every expression e, after new(e) the last entry of the
\* calculation list is a store of the value reference compiling e returned,
\* appended as a new calculation and never absorbed by an earlier one, so
\* the list is non-empty and the value evaluate returns, the slot of the
\* last calculation, is the value of e, also when e is a single constant.
C9_FinalStoreIsValue ==
    phase = "ready"
    => /\ FinalStore
       /\ \A c \in DOMAIN calls :
             (Done(c) /\ IsOk(calls[c].result))
             => /\ calls[c].result =
                       Index(calls[c].data.intermediates,
                             self_.calculations[Len(self_.calculations)].target)
                /\ (/\ Consistent(calls[c].getter)
                    /\ InRange(expr, calls[c].getter)
                    /\ (HasQuery(expr) => calls[c].getter.row_size >= 1))
                   => calls[c].result.val =
                          ExprValue(expr, calls[c].getter, calls[c].row_index)

(***************************************************************************)
(* C10                                                                     *)
(***************************************************************************)
\* The operand v of the calculation at position k (from 0) of g is defined
InBounds(g, k, v) ==
    CASE v.kind = "Intermediate" -> v.index \in 0 .. (k - 1)
      [] v.kind = "Constant" -> v.index \in 0 .. (Len(g.constants) - 1)
      [] v.kind \in {"Fixed", "Poly"} ->
            v.rotation \in 0 .. (Len(g.rotations) - 1)
      [] v.kind = "Challenge" -> TRUE

\* C10: after every step of compiling any expression, the calculation at
\* position k has target slot k, the number of intermediate slots is the
\* length of the calculation list, every intermediate reference read by the
\* calculation at position k points to a slot j < k, and every constant
\* reference and rotation index a calculation reads is within the constant
\* pool and the rotation table.
C10_DefBeforeUse ==
    /\ self_.num_intermediates = Len(self_.calculations)
    /\ \A k \in 0 .. (Len(self_.calculations) - 1) :
          /\ self_.calculations[k + 1].target = k
          /\ \A v \in Operands(self_.calculations[k + 1].calculation) :
                InBounds(self_, k, v)

\* In the middle of a compilation, the list holds a calculation reading an
\* intermediate slot, one reading a constant beyond the three seeded ones
\* and one reading a column through the rotation table.
C10_Witness ==
    /\ phase = "compiling"
    /\ work # <<>>
    /\ \E k \in 1 .. Len(self_.calculations) :
          \E v \in Operands(self_.calculations[k].calculation) :
              v.kind = "Intermediate"
    /\ \E k \in 1 .. Len(self_.calculations) :
          \E v \in Operands(self_.calculations[k].calculation) :
              v.kind = "Constant" /\ v.index >= 3
    /\ \E k \in 1 .. Len(self_.calculations) :
          \E v \in Operands(self_.calculations[k].calculation) :
              v.kind = "Poly"

(***************************************************************************)
(* C7                                                                      *)
(***************************************************************************)
\* The outcome of the calculation of index k in the scratch data the call c
\* holds; the operands of a calculation the call executed are not written
\* after it, so this is the outcome it had when the call executed it.
Outcome(c, k) ==
    Calculation_evaluate(self_.calculations[k + 1].calculation,
                         calls[c].data.rotations, self_.constants,
                         calls[c].data.intermediates, calls[c].getter)

\* C7: during evaluate the calculations execute one at a time in list
\* order; as soon as the operand lookup of one calculation fails no
\* calculation after it is executed, evaluate returns the error of that
\* first failing calculation and never a field value, and a later evaluate
\* call on the same graph, for any row, returns the result it would have
\* returned had the failed call never happened.
C7_FirstFailureReturns ==
    \A c \in DOMAIN calls :
        LET m == Len(calls[c].executed)
        IN  /\ calls[c].executed = [i \in 1 .. m |-> i - 1]
            /\ \A i \in 1 .. (m - 1) : IsOk(Outcome(c, i - 1))
            /\ (m >= 1 /\ ~IsOk(Outcome(c, m - 1)))
               => /\ Done(c)
                  /\ calls[c].result = Outcome(c, m - 1)
                  /\ \A i \in m .. Len(self_.calculations) :
                        calls[c].data.intermediates
                            [self_.calculations[i].target + 1] = 0
            /\ (Done(c) /\ IsOk(calls[c].result))
               => /\ m = Len(self_.calculations)
                  /\ \A i \in 1 .. m : IsOk(Outcome(c, i - 1))
            /\ Done(c) => calls[c].result = Alone(c)

\* One call stopped at a failing calculation in the middle of the list with
\* a typed error, and a call begun after that failure returned a value.
C7_Witness ==
    \E c, d \in DOMAIN calls :
        /\ Done(c)
        /\ calls[c].result.tag = "RowIndexOutOfBoundary"
        /\ Len(calls[c].executed) >= 2
        /\ Len(calls[c].executed) < Len(self_.calculations)
        /\ Done(d)
        /\ calls[d].after_failure
        /\ IsOk(calls[d].result)

(***************************************************************************)
(* C8                                                                      *)
(***************************************************************************)
\* The step is one of the call c
Moves(c) ==
    \/ calls'[c].pc # calls[c].pc
    \/ calls'[c].rot_idx # calls[c].rot_idx
    \/ calls'[c].k # calls[c].k

\* C8: when several evaluate calls run concurrently on the same compiled
\* graph and the same unchanging external data, for any rows and any
\* interleaving of their steps, each call returns exactly the result it
\* returns when run alone, each call writes only its own scratch buffer, and
\* the constant pool, the rotation table and the calculation list of the
\* graph are unchanged by every call.
C8_ConcurrentCallsIsolated ==
    /\ [](\A c \in DOMAIN calls : Done(c) => calls[c].result = Alone(c))
    /\ [][phase = "ready"
          => /\ self_' = self_
             /\ \A c, d \in DOMAIN calls :
                   (c # d /\ Moves(c)) => calls'[d] = calls[d]]_vars

\* Two calls of different rows are both in the middle of the calculation
\* list.
C8_Witness ==
    \E c, d \in DOMAIN calls :
        /\ c # d
        /\ calls[c].pc = "running"
        /\ calls[d].pc = "running"
        /\ calls[c].row_index # calls[d].row_index
        /\ calls[c].k >= 1
        /\ calls[d].k >= 1
        /\ calls[c].k < Len(self_.calculations)
        /\ calls[d].k < Len(self_.calculations)

(***************************************************************************)
(* C11                                                                     *)
(***************************************************************************)
NoDuplicates(s) == \A i, j \in 1 .. Len(s) : s[i] = s[j] => i = j

IsPrefix(s, t) == Len(s) <= Len(t) /\ SubSeq(t, 1, Len(s)) = s

\* The instructions of the calculation list, in order
Instructions(g) ==
    [i \in 1 .. Len(g.calculations) |-> g.calculations[i].calculation]

\* No table of g holds an entry twice, and the pool starts 0, 1, 2.
DuplicateFree(g) ==
    /\ NoDuplicates(g.constants)
    /\ NoDuplicates(g.rotations)
    /\ NoDuplicates(Instructions(g))
    /\ Len(g.constants) >= 3
    /\ SubSeq(g.constants, 1, 3) = <<0, FromU64(1), FromU64(2)>>

\* Instructions to insert in g: those it holds, and some it may not hold
Insertable(g) ==
    {Instructions(g)[i] : i \in 1 .. Len(g.calculations)}
        \cup {Store(VS_Challenge(0)), Store(VS_Poly(2, 0)),
              Negate(VS_Constant(1)), Add(VS_Constant(1), VS_Constant(2))}

\* An insertion in g of an entry g holds returns the index of that entry and
\* changes no table; an insertion of another entry appends it to its table,
\* changes no other table and returns the new index.
InsertsOnce(g) ==
    /\ \A x \in F :
          LET r == add_constant(g, x)
          IN  IF \E i \in 1 .. Len(g.constants) : g.constants[i] = x
              THEN /\ r.g = g
                   /\ r.r.kind = "Constant"
                   /\ r.r.index \in 0 .. (Len(g.constants) - 1)
                   /\ g.constants[r.r.index + 1] = x
              ELSE /\ r.g = [g EXCEPT !.constants = Append(@, x)]
                   /\ r.r = VS_Constant(Len(g.constants))
    /\ \A rot \in Rotations :
          LET r == add_rotation(g, rot)
          IN  IF \E i \in 1 .. Len(g.rotations) : g.rotations[i] = rot
              THEN /\ r.g = g
                   /\ r.r \in 0 .. (Len(g.rotations) - 1)
                   /\ g.rotations[r.r + 1] = rot
              ELSE /\ r.g = [g EXCEPT !.rotations = Append(@, rot)]
                   /\ r.r = Len(g.rotations)
    /\ \A calc \in Insertable(g) :
          LET r == add_calculation(g, calc)
          IN  IF \E i \in 1 .. Len(g.calculations) : Instructions(g)[i] = calc
              THEN /\ r.g = g
                   /\ r.r.kind = "Intermediate"
                   /\ r.r.index \in 0 .. (Len(g.calculations) - 1)
                   /\ Instructions(g)[r.r.index + 1] = calc
              ELSE /\ r.g.constants = g.constants
                   /\ r.g.rotations = g.rotations
                   /\ Instructions(r.g) = Append(Instructions(g), calc)
                   /\ IsPrefix(g.calculations, r.g.calculations)
                   /\ r.r = VS_Intermediate(Len(g.calculations))

\* The step changes the three tables by appending only
AppendOnly ==
    /\ IsPrefix(self_.constants, self_'.constants)
    /\ IsPrefix(self_.rotations, self_'.rotations)
    /\ IsPrefix(self_.calculations, self_'.calculations)

\* C11: after any sequence of insertions of constants, rotations and
\* calculations made while compiling an expression the three tables are
\* duplicate-free and append-only: no two calculations are the same
\* instruction on the same operand references, no two rotations are equal,
\* the pool holds zero, one and two at indices 0, 1 and 2 and no value
\* twice, and an insertion that matches an entry returns the index of that
\* entry and leaves every table unchanged.  The tables are those of the
\* states up to the first call of evaluate, which does not write them.
C11_TablesDuplicateFree ==
    /\ []((\A c \in DOMAIN calls : calls[c].pc = "idle")
             => (DuplicateFree(self_) /\ InsertsOnce(self_)))
    /\ [][AppendOnly]_vars

\* In the middle of a compilation whose three tables have grown, the next
\* insertion is of a constant the compilation has already put in the pool.
C11_Witness ==
    /\ CompilingExpr("Constant")
    /\ \E i \in 4 .. Len(self_.constants) :
          self_.constants[i] = Head(work).e.scalar
    /\ self_.rotations # <<>>
    /\ Len(self_.calculations) >= 2

(***************************************************************************)
(* C12                                                                     *)
(***************************************************************************)
\* The step returns the reference out of the instruction calc, which the
\* list held or which the step appended, and changes nothing else.
Emits(calc, out) ==
    /\ out.kind = "Intermediate"
    /\ out.index \in 0 .. (Len(self_'.calculations) - 1)
    /\ Instructions(self_')[out.index + 1] = calc
    /\ \/ self_' = self_
       \/ Instructions(self_') = Append(Instructions(self_), calc)
    /\ self_'.constants = self_.constants
    /\ self_'.rotations = self_.rotations

\* The step returns the reference out and no new node
NoNode(ref, out) == out = ref /\ self_' = self_

\* The step that combines the references result_a and result_b both operands
\* of a Product compiled to applies the first matching rule.
ProductRules ==
    Compiling("ProductArm")
    => LET result_a == vals[2]
           result_b == vals[1]
           out == vals'[1]
           zero == VS_Constant(0)
           one == VS_Constant(1)
           two == VS_Constant(2)
       IN  /\ Len(vals') = Len(vals) - 1
           /\ IF result_a = zero \/ result_b = zero
              THEN NoNode(zero, out)
              ELSE IF result_a = one \/ result_b = one
              THEN NoNode(IF result_a = one THEN result_b ELSE result_a, out)
              ELSE IF result_a = two \/ result_b = two
              THEN Emits(Double(IF result_a = two THEN result_b ELSE result_a),
                         out)
              ELSE IF result_a = result_b
              THEN Emits(Square(result_a), out)
              ELSE Emits(IF VS_le(result_a, result_b)
                         THEN Mul(result_a, result_b)
                         ELSE Mul(result_b, result_a), out)

\* The instruction the result reference of the compiled expression names
ResultOp == Instructions(self_)[vals[1].index + 1].op

\* A product by two and a self-product end in no multiply.
NoMultiply ==
    (/\ phase = "ready"
     /\ expr.tag = "Product"
     /\ \/ expr.a = Constant(FromU64(2))
        \/ expr.b = Constant(FromU64(2))
        \/ expr.a = expr.b)
    => \/ vals[1].kind = "Constant"
       \/ vals[1].kind = "Intermediate" /\ ResultOp \in {"Double", "Square"}

\* C12: for all expressions a and b, compiling Product(a, b) compiles both
\* operands and then applies the first rule that matches, in this order:
\* either operand resolved to the zero constant gives the zero constant and
\* no new node; either resolved to the one constant gives the reference of
\* the other operand and no new node; either resolved to the two constant
\* emits a double of the other operand; both resolved to the same reference
\* emits a square; otherwise a multiply with the operands in canonical
\* order.  A product by two and a self-product never emit a multiply.
C12_ProductRules ==
    /\ [][ProductRules]_vars
    /\ []NoMultiply

\* A self-product of an operand that is not a constant was compiled to a
\* square of the reference of the operand.
C12_Witness ==
    /\ phase = "ready"
    /\ expr.tag = "Product"
    /\ expr.a = expr.b
    /\ vals[1].kind = "Intermediate"
    /\ ResultOp = "Square"
    /\ Instructions(self_)[vals[1].index + 1].v.kind = "Intermediate"

(***************************************************************************)
(* C13                                                                     *)
(***************************************************************************)
\* What the reference v resolves to in the scratch data of the call c
Lookup(c, v) ==
    get_value(v, calls[c].data.rotations, self_.constants,
              calls[c].data.intermediates, calls[c].getter)

\* value_n of the fold value_0 = s, value_i = value_(i-1) * f + c_i
RECURSIVE Fold(_, _, _)
Fold(c, h, n) ==
    IF n = 0
    THEN Lookup(c, h.start_value).val
    ELSE FAdd(FMul(Fold(c, h, n - 1), Lookup(c, h.factor).val),
              Lookup(c, h.parts[n]).val)

\* The Horner instruction of the evaluator, at index 1 of the list
TheHorner == self_.calculations[2].calculation

\* The operand references of the Horner instruction whose lookup fails
Failing(c) == {v \in Operands(TheHorner) : ~IsOk(Lookup(c, v))}

\* C13: executing a Horner instruction with start reference s, coefficient
\* references c1..cn (n >= 0) and factor reference f, all of which resolve,
\* yields the left to right fold value_0 = s, value_i = value_(i-1) * f +
\* c_i, that is value_n, and the value of s when there is no coefficient; if
\* the lookup of an operand fails the instruction yields the error of that
\* lookup and no value.
C13_HornerFolds ==
    \A c \in DOMAIN calls :
        Executed(c, 1)
        => IF Failing(c) = {}
           THEN /\ calls[c].data.intermediates[2] =
                       Fold(c, TheHorner, Len(TheHorner.parts))
                /\ TheHorner.parts = <<>>
                   => calls[c].data.intermediates[2] =
                          Lookup(c, TheHorner.start_value).val
                /\ Done(c)
                   => calls[c].result = Ok(calls[c].data.intermediates[2])
           ELSE /\ Done(c)
                /\ calls[c].result \in {Lookup(c, v) : v \in Failing(c)}
                /\ calls[c].data.intermediates[2] = 0

\* A Horner instruction of two different coefficients and a factor other
\* than zero and one was executed, and evaluate returned its value.
C13_Witness ==
    \E c \in DOMAIN calls :
        /\ TheHorner.op = "Horner"
        /\ Executed(c, 1)
        /\ Done(c)
        /\ IsOk(calls[c].result)
        /\ Len(TheHorner.parts) >= 2
        /\ TheHorner.parts[1] # TheHorner.parts[2]
        /\ Lookup(c, TheHorner.factor).val \notin {0, FromU64(1)}
        /\ Lookup(c, TheHorner.start_value).val # 0
====
